---------------------------- MODULE Spec2Model ----------------------------
(***************************************************************************)
(* The applicant-analysis scripts analyse.py (legacy, 19-column schema)   *)
(* and analyser2020.py (newer, 30-column schema) as one state machine.    *)
(* A run is: __main__ -> run -> read_data_file -> check_qualification ->  *)
(* (split_courses) -> ExcelWriter -> summary -> sheets -> (save) -> print *)
(* -> final banner.  An uncaught Python exception ends the run in         *)
(* pc = "crashed" with the exception recorded in `raised`.                *)
(*                                                                         *)
(* Modelling conventions                                                   *)
(*  - a text cell is a sequence of one-character strings when the code    *)
(*    looks inside it (the name columns), and a plain string otherwise;   *)
(*  - an empty CSV cell is read by pandas as the float NaN: NaN below for *)
(*    the name columns, NaNStr for the others, NaNDate for a date;        *)
(*  - a date cell "YYYY-MM-DD" is the tuple <<Y, M, D>> of its numbers;   *)
(*    strptime checks it against the calendar;                            *)
(*  - the first CSV column (index_col=0) is the row label `idx`; the      *)
(*    export numbers its rows, so labels are distinct;                    *)
(*  - columns no function of the scripts ever reads are left out of the   *)
(*    rows;                                                                *)
(*  - pandas is the release the scripts were written for, in which        *)
(*    DataFrame.set_value and ExcelWriter.save exist.                     *)
(***************************************************************************)
EXTENDS Integers, Sequences, FiniteSets, TLC

VARIABLES
    program,          \* which script is executed: "analyse.py" | "analyser2020.py"
    argv,             \* sys.argv
    csv_file,         \* the file the path argument names: [exists, rows]
    today,            \* date.today()
    pc,               \* position of the run
    dataframe,        \* run's local `dataframe`
    splitted,         \* run's local `splitted` (legacy)
    summary_df,       \* run's local `summary_df`
    writer,           \* the pd.ExcelWriter: [state, sheets]
    candidates_xlsx,  \* candidates.xlsx in the working directory: [state, sheets]
    stdout,           \* what has been printed
    raised            \* the uncaught exception, "" when none

vars == <<program, argv, csv_file, today, pc, dataframe, splitted, summary_df,
          writer, candidates_xlsx, stdout, raised>>

Legacy == "analyse.py"
Newer == "analyser2020.py"

(***************************************************************************)
(* Cell values                                                             *)
(***************************************************************************)
NaN == <<"nan">>
NaNStr == "nan"
NaNDate == <<>>

IsSpace(c) == c = " "

\* str.upper on one character of the model's alphabet
UpperChar(c) ==
    CASE c = "a" -> "A"
      [] c = "b" -> "B"
      [] OTHER -> c

\* x.upper()
Upper(x) == [i \in 1..Len(x) |-> UpperChar(x[i])]

\* x.split(): the maximal runs of non-whitespace characters, in order
RECURSIVE SplitWs(_, _, _)
SplitWs(x, cur, acc) ==
    IF x = <<>>
    THEN IF cur = <<>> THEN acc ELSE Append(acc, cur)
    ELSE IF IsSpace(Head(x))
         THEN SplitWs(Tail(x), <<>>, IF cur = <<>> THEN acc ELSE Append(acc, cur))
         ELSE SplitWs(Tail(x), Append(cur, Head(x)), acc)

Split(x) == SplitWs(x, <<>>, <<>>)

\* sep.join(parts)
RECURSIVE Join(_, _)
Join(sep, parts) ==
    IF parts = <<>> THEN <<>>
    ELSE IF Len(parts) = 1 THEN Head(parts)
    ELSE Head(parts) \o sep \o Join(sep, Tail(parts))

\* lambda x: ' '.join(x.split())
CollapseSpaces(x) == Join(<<" ">>, Split(x))

\* the two lambdas applied in turn to one name cell
NormalizeName(x) == CollapseSpaces(Upper(x))

\* code points of the model's alphabet, for Python's string ordering
Ord == (" " :> 32) @@ ("A" :> 65) @@ ("B" :> 66) @@ ("a" :> 97) @@ ("b" :> 98)

RECURSIVE StrLess(_, _)
StrLess(a, b) ==
    IF b = <<>> THEN FALSE
    ELSE IF a = <<>> THEN TRUE
    ELSE IF Head(a) = Head(b) THEN StrLess(Tail(a), Tail(b))
    ELSE Ord[Head(a)] < Ord[Head(b)]

StrLeq(a, b) == a = b \/ StrLess(a, b)

(***************************************************************************)
(* Data-frame primitives                                                   *)
(***************************************************************************)
\* boolean indexing, dataframe[mask] / dataframe.loc[mask]
RECURSIVE Compress(_, _)
Compress(df, mask) ==
    IF df = <<>> THEN <<>>
    ELSE (IF Head(mask) THEN <<Head(df)>> ELSE <<>>) \o Compress(Tail(df), Tail(mask))

\* a plausible slip: only a duplicate that directly follows its original is dropped
DropAdjacentDuplicates(df, subset) ==
    Compress(df, [i \in 1..Len(df) |-> i = 1 \/ df[i - 1][subset] # df[i][subset]])

\* a plausible slip: the duplicates are looked for in another column
DropDuplicatesOnGender(df, subset) ==
    Compress(df, [i \in 1..Len(df) |->
                    \A j \in 1..(i - 1) : df[j]["gender"] # df[i]["gender"]])

\* dataframe.drop_duplicates(subset=[subset]): keep='first', order kept; pandas
\* groups NaN cells together, so two NaN cells are duplicates of one another
DropDuplicates(df, subset) ==
    Compress(df, [i \in 1..Len(df) |->
                    \A j \in 1..(i - 1) : df[j][subset] # df[i][subset]])

Perms(n) == {p \in [1..n -> 1..n] : \A i, j \in 1..n : i # j => p[i] # p[j]}

\* dataframe.sort_values([by], ascending=True): the default sort is quicksort,
\* which is not stable, so rows with equal keys may come out in any order
SortValues(df, by) ==
    {[i \in 1..Len(df) |-> df[p[i]]] :
        p \in {q \in Perms(Len(df)) :
                 \A i \in 1..(Len(df) - 1) : StrLeq(df[q[i]][by], df[q[i + 1]][by])}}

AddColumn(df, col, values) == [i \in 1..Len(df) |-> (col :> values[i]) @@ df[i]]

SetColumn(df, col, values) == [i \in 1..Len(df) |-> [df[i] EXCEPT ![col] = values[i]]]

(***************************************************************************)
(* read_data_file                                                          *)
(***************************************************************************)
NameColumns(prog) ==
    IF prog = Legacy THEN <<"name">> ELSE <<"first_name", "second_name", "surname">>

\* x.upper() on a float raises AttributeError
NameCellsMissing(prog, df) ==
    \E i \in 1..Len(df) : \E k \in 1..Len(NameColumns(prog)) :
        df[i][NameColumns(prog)[k]] = NaN

RECURSIVE NormalizeColumns(_, _)
NormalizeColumns(df, cols) ==
    IF cols = <<>> THEN df
    ELSE NormalizeColumns(
            SetColumn(df, Head(cols),
                      [i \in 1..Len(df) |-> NormalizeName(df[i][Head(cols)])]),
            Tail(cols))

\* the .apply(upper) and .apply(' '.join(x.split())) statements
NormalizeNames(prog, df) == NormalizeColumns(df, NameColumns(prog))

\* fullname = row['first_name'] + ' ' + row['second_name'] + ' ' + row['surname']
FullName(row) ==
    row["first_name"] \o <<" ">> \o row["second_name"] \o <<" ">> \o row["surname"]

create_full_name(df) ==
    AddColumn(df, "full_name", [i \in 1..Len(df) |-> FullName(df[i])])

\* the frame the drop_duplicates statements start from: the name columns
\* normalized and, in the newer script, the full_name column created
Prepared(prog, rows) ==
    IF prog = Legacy
    THEN NormalizeNames(prog, rows)
    ELSE create_full_name(NormalizeNames(prog, rows))

\* the drop_duplicates statements of read_data_file
Deduplicate(prog, df) ==
    IF prog = Legacy
    THEN DropDuplicates(DropDuplicates(df, "oLevelNumber"), "name")
    ELSE DropDuplicates(df, "full_name")

IsLeap(y) == (y % 4 = 0 /\ y % 100 # 0) \/ y % 400 = 0

DaysInMonth(y, m) ==
    IF m = 2 THEN (IF IsLeap(y) THEN 29 ELSE 28)
    ELSE IF m \in {4, 6, 9, 11} THEN 30 ELSE 31

\* whether datetime.strptime(born, "%Y-%m-%d") returns
ValidDate(born) ==
    /\ Len(born) = 3
    /\ born[2] \in 1..12
    /\ born[3] \in 1..DaysInMonth(born[1], born[2])

strptime(born) == [year |-> born[1], month |-> born[2], day |-> born[3]]

\* Python's (a, b) < (c, d)
TupleLess(a, b) == a[1] < b[1] \/ (a[1] = b[1] /\ a[2] < b[2])

\* a plausible slip: <= for <
calculate_age_leq(born, now) ==
    LET b == strptime(born)
    IN  now.year - b.year
        - (IF TupleLess(<<now.month, now.day>>, <<b.month, b.day>>)
              \/ <<now.month, now.day>> = <<b.month, b.day>>
           THEN 1 ELSE 0)

calculate_age(born, now) ==
    LET b == strptime(born)
    IN  now.year - b.year
        - (IF TupleLess(<<now.month, now.day>>, <<b.month, b.day>>) THEN 1 ELSE 0)

(***************************************************************************)
(* check_qualification                                                     *)
(***************************************************************************)
CACO == "Ordinary Diploma in Clinical Medicine (CA to CO upgrading, one year)"
RCO == "Ordinary Diploma in Clinical Medicine (fresh from school to become Clinical Officer, three years)"
HIS == "Ordinary Diploma in Health Information Science (three years)"

\* a plausible slip: credit_c written with credit_d's list
credit_c_loose(score) == IF score \in {"A", "B", "C", "D"} THEN "Yes" ELSE "No"

credit_c(score) == IF score \in {"A", "B", "C"} THEN "Yes" ELSE "No"

credit_d(score) == IF score \in {"A", "B", "C", "D"} THEN "Yes" ELSE "No"

\* the body of the legacy loop for one row: the value Qualify ends with
QualifyLegacy(row) ==
    IF row["course"] = RCO
    THEN LET qualifications == <<credit_c(row["biology"]), credit_c(row["chemistry"]),
                                 credit_d(row["physics"]), credit_d(row["maths"]),
                                 credit_d(row["english"])>>
         IN  IF \E k \in 1..Len(qualifications) : qualifications[k] = "No"
             THEN "No" ELSE "Yes"
    ELSE ""

\* a plausible slip: maths is asked for as well
QualifyNewerWithMaths(row) ==
    IF /\ row["biology"] \in {"A", "B", "C", "D"}
       /\ row["chemistry"] \in {"A", "B", "C", "D"}
       /\ row["physics"] \in {"A", "B", "C", "D"}
       /\ row["maths"] \in {"A", "B", "C", "D"}
    THEN "Yes" ELSE "No"

\* the body of the newer loop for one row
QualifyNewer(row) ==
    LET grades == {"A", "B", "C", "D"}
    IN  IF /\ row["biology"] \in grades
           /\ row["chemistry"] \in grades
           /\ row["physics"] \in grades
        THEN "Yes" ELSE "No"

check_qualification(prog, df) ==
    AddColumn(df, "Qualify",
              [i \in 1..Len(df) |->
                 IF prog = Legacy THEN QualifyLegacy(df[i]) ELSE QualifyNewer(df[i])])

(***************************************************************************)
(* split_courses and the summary                                           *)
(***************************************************************************)
WithCourse(df, course) ==
    Compress(df, [i \in 1..Len(df) |-> df[i]["course"] = course])

\* a plausible slip: the third filter is a copy of the second
split_courses_copied(df) == <<WithCourse(df, CACO), WithCourse(df, RCO), WithCourse(df, RCO)>>

split_courses(df) == <<WithCourse(df, CACO), WithCourse(df, RCO), WithCourse(df, HIS)>>

\* a plausible slip: the gender is matched whatever its case
CountGenderAnyCase(df, gender) ==
    Cardinality({i \in 1..Len(df) :
                   df[i]["gender"] \in {gender, IF gender = "Male" THEN "male" ELSE "female"}})

\* int((df[['gender']] == gender).sum())
CountGender(df, gender) ==
    Cardinality({i \in 1..Len(df) : df[i]["gender"] = gender})

SummaryRow(label, df) ==
    [label |-> label,
     cols |-> <<Len(df), CountGender(df, "Male"), CountGender(df, "Female")>>]

RECURSIVE ColumnSums(_)
ColumnSums(rows) ==
    IF rows = <<>> THEN <<0, 0, 0>>
    ELSE LET rest == ColumnSums(Tail(rows))
         IN  [k \in 1..3 |-> Head(rows).cols[k] + rest[k]]

\* summary_df as run builds it; the legacy run appends summary_df.sum() as 'Total'
Summary(prog, df, groups) ==
    IF prog = Legacy
    THEN LET rows == <<SummaryRow("CACO", groups[1]), SummaryRow("rCO", groups[2]),
                       SummaryRow("HIS", groups[3])>>
         IN  Append(rows, [label |-> "Total", cols |-> ColumnSums(rows)])
    ELSE <<SummaryRow("Candidates", df)>>

(***************************************************************************)
(* The run                                                                 *)
(***************************************************************************)
NoWriter == [state |-> "none", sheets |-> <<>>]
AbsentFile == [state |-> "absent", sheets |-> <<>>]
StaleFile == [state |-> "stale", sheets |-> <<"Summary">>]

\* a plausible slip: the test of the path is left out
PathAlwaysExists(file) == TRUE

\* Path(filename).exists()
PathExists(file) == file.exists

Crash(exception) ==
    /\ pc' = "crashed"
    /\ raised' = exception

\* the __main__ block up to the call of run
Main ==
    /\ pc = "main"
    /\ IF Len(argv) = 1
       THEN /\ stdout' = stdout \o <<"banner", "usage">>
            /\ pc' = "finish"
       ELSE /\ stdout' = stdout \o (IF program = Newer THEN <<"banner", "analysing">>
                                                      ELSE <<"banner">>)
            /\ pc' = "run"
    /\ UNCHANGED <<program, argv, csv_file, today, dataframe, splitted, summary_df,
                   writer, candidates_xlsx, raised>>

\* run: the test of the path
Run ==
    /\ pc = "run"
    /\ IF PathExists(csv_file)
       THEN /\ pc' = "read_data_file"
            /\ UNCHANGED stdout
       ELSE /\ pc' = "finish"
            /\ stdout' = Append(stdout, "does not exists")
    /\ UNCHANGED <<program, argv, csv_file, today, dataframe, splitted, summary_df,
                   writer, candidates_xlsx, raised>>

\* dataframe = read_data_file(data_file_path)
ReadDataFile ==
    /\ pc = "read_data_file"
    /\ IF ~csv_file.exists
       THEN Crash("FileNotFoundError") /\ UNCHANGED dataframe
       ELSE IF NameCellsMissing(program, csv_file.rows)
       THEN Crash("AttributeError") /\ UNCHANGED dataframe
       ELSE LET deduped == Deduplicate(program, Prepared(program, csv_file.rows))
            IN  IF program = Legacy
                THEN IF \E i \in 1..Len(deduped) : deduped[i]["birthDate"] = NaNDate
                     THEN Crash("TypeError") /\ UNCHANGED dataframe
                     ELSE IF \E i \in 1..Len(deduped) : ~ValidDate(deduped[i]["birthDate"])
                     THEN Crash("ValueError") /\ UNCHANGED dataframe
                     ELSE /\ \E sorted \in SortValues(
                                   AddColumn(deduped, "age_calc",
                                             [i \in 1..Len(deduped) |->
                                                calculate_age(deduped[i]["birthDate"], today)]),
                                   "name") :
                               dataframe' = sorted
                          /\ pc' = "check_qualification"
                          /\ UNCHANGED raised
                ELSE /\ \E sorted \in SortValues(deduped, "first_name") :
                          dataframe' = sorted
                     /\ pc' = "check_qualification"
                     /\ UNCHANGED raised
    /\ UNCHANGED <<program, argv, csv_file, today, splitted, summary_df, writer,
                   candidates_xlsx, stdout>>

\* dataframe = check_qualification(dataframe)
CheckQualification ==
    /\ pc = "check_qualification"
    /\ dataframe' = check_qualification(program, dataframe)
    /\ pc' = IF program = Legacy THEN "split_courses" ELSE "open_writer"
    /\ UNCHANGED <<program, argv, csv_file, today, splitted, summary_df, writer,
                   candidates_xlsx, stdout, raised>>

\* splitted = split_courses(dataframe)
SplitCourses ==
    /\ pc = "split_courses"
    /\ splitted' = split_courses(dataframe)
    /\ pc' = "open_writer"
    /\ UNCHANGED <<program, argv, csv_file, today, dataframe, summary_df, writer,
                   candidates_xlsx, stdout, raised>>

\* writer = pd.ExcelWriter(candidates_file): nothing reaches the disk before save
OpenWriter ==
    /\ pc = "open_writer"
    /\ writer' = [state |-> "open", sheets |-> <<>>]
    /\ pc' = "summary"
    /\ UNCHANGED <<program, argv, csv_file, today, dataframe, splitted, summary_df,
                   candidates_xlsx, stdout, raised>>

\* the summary table and summary_df.to_excel(writer, "Summary", ...)
WriteSummary ==
    /\ pc = "summary"
    /\ summary_df' = Summary(program, dataframe, splitted)
    /\ writer' = [writer EXCEPT !.sheets = Append(@, "Summary")]
    /\ pc' = "sheets"
    /\ UNCHANGED <<program, argv, csv_file, today, dataframe, splitted,
                   candidates_xlsx, stdout, raised>>

\* the to_excel calls of the detail sheets
WriteSheets ==
    /\ pc = "sheets"
    /\ writer' = [writer EXCEPT !.sheets =
                     @ \o (IF program = Legacy
                           THEN <<"CACO-candidates", "rCO-candidates", "HIS-candidates">>
                           ELSE <<"Applicants">>)]
    /\ pc' = IF program = Legacy THEN "print" ELSE "save"
    /\ UNCHANGED <<program, argv, csv_file, today, dataframe, splitted, summary_df,
                   candidates_xlsx, stdout, raised>>

\* writer.save(), which only analyser2020.py calls
SaveWriter ==
    /\ pc = "save"
    /\ candidates_xlsx' = [state |-> "written", sheets |-> writer.sheets]
    /\ writer' = [writer EXCEPT !.state = "saved"]
    /\ pc' = "print"
    /\ UNCHANGED <<program, argv, csv_file, today, dataframe, splitted, summary_df,
                   stdout, raised>>

\* print(summary_df) and the closing message of run
PrintSummary ==
    /\ pc = "print"
    /\ stdout' = stdout \o <<"summary_df", "written to file">>
    /\ pc' = "finish"
    /\ UNCHANGED <<program, argv, csv_file, today, dataframe, splitted, summary_df,
                   writer, candidates_xlsx, raised>>

\* the rest of the __main__ block, then interpreter exit.  A writer that was
\* never saved is dropped with the process: whether its engine flushes the
\* workbook from a destructor depends on the installed engine.
Finish ==
    /\ pc = "finish"
    /\ stdout' = stdout \o (IF program = Newer /\ Len(argv) > 1
                            THEN <<"done!", "banner">> ELSE <<"banner">>)
    /\ pc' = "exit"
    /\ IF writer.state = "open"
       THEN \E flushed \in BOOLEAN :
               /\ writer' = [writer EXCEPT !.state = IF flushed THEN "saved" ELSE "dropped"]
               /\ candidates_xlsx' = IF flushed
                                     THEN [state |-> "written", sheets |-> writer.sheets]
                                     ELSE candidates_xlsx
       ELSE UNCHANGED <<writer, candidates_xlsx>>
    /\ UNCHANGED <<program, argv, csv_file, today, dataframe, splitted, summary_df, raised>>

Next ==
    \/ Main
    \/ Run
    \/ ReadDataFile
    \/ CheckQualification
    \/ SplitCourses
    \/ OpenWriter
    \/ WriteSummary
    \/ WriteSheets
    \/ SaveWriter
    \/ PrintSummary
    \/ Finish

(***************************************************************************)
(* Inputs                                                                  *)
(***************************************************************************)
Programs == {Legacy, Newer}

\* the rows of one CSV file of the legacy schema (columns as renamed)
LegacyRow(idx, name, reg, gender, born, course, grades) ==
    [idx |-> idx, name |-> name, gender |-> gender, birthDate |-> born,
     course |-> course, oLevelNumber |-> reg,
     biology |-> grades[1], chemistry |-> grades[2], physics |-> grades[3],
     maths |-> grades[4], english |-> grades[5]]

\* the rows of one CSV file of the newer schema (columns as renamed)
NewerRow(idx, names, reg, gender, born, grades) ==
    [idx |-> idx, first_name |-> names[1], second_name |-> names[2],
     surname |-> names[3], birth_date |-> born, gender |-> gender,
     form4index |-> reg,
     biology |-> grades[1], chemistry |-> grades[2], physics |-> grades[3],
     maths |-> grades[4], english |-> grades[5]]

SeqsUpTo(S, n) == UNION {[1..k -> S] : k \in 0..n}

Start(prog, args, file, now, disk) ==
    /\ program = prog
    /\ argv = args
    /\ csv_file = file
    /\ today = now
    /\ pc = "main"
    /\ dataframe = <<>>
    /\ splitted = <<>>
    /\ summary_df = <<>>
    /\ writer = NoWriter
    /\ candidates_xlsx = disk
    /\ stdout = <<>>
    /\ raised = ""

WithPath(prog) == <<prog, "applications.csv">>
File(rows) == [exists |-> TRUE, rows |-> rows]
NoFile == [exists |-> FALSE, rows |-> <<>>]

SomeDay == [year |-> 2018, month |-> 7, day |-> 23]
SomeBirth == <<2000, 1, 1>>
AllA == <<"A", "A", "A", "A", "A">>

\* names and registration numbers that differ from row to row, for the inputs
\* that are not about duplicates
RowNames == <<<<"a">>, <<"b">>, <<"a", "a">>, <<"a", "b">>, <<"b", "a">>, <<"b", "b">>>>
RowRegs == <<<<"S", "1">>, <<"S", "2">>, <<"S", "3">>, <<"S", "4">>, <<"S", "5">>, <<"S", "6">>>>
NameOf(prog, i) ==
    IF prog = Legacy THEN RowNames[i] ELSE <<RowNames[i], <<"b">>, <<"a">>>>

(***************************************************************************)
(* Inputs with duplicates: names and registration numbers from small sets, *)
(* two of the raw names having the same canonical form.                    *)
(***************************************************************************)
MaxDedupRows == 3

DedupRegs == {<<"S", "1">>, <<"S", "2">>, NaN}
DedupNames == {<<"a">>, <<"A", " ">>, <<"b">>}
DedupNameParts == {<<<<"a">>, <<"b">>, <<"b">>>>,
                   <<<<"A", " ">>, <<"b">>, <<"b">>>>,
                   <<<<"a">>, <<"b">>, <<"a">>>>}

DedupCells(prog) ==
    (IF prog = Legacy THEN DedupNames ELSE DedupNameParts) \X DedupRegs

RowsOfCells(prog, cells) ==
    [i \in 1..Len(cells) |->
        IF prog = Legacy
        THEN LegacyRow(i, cells[i][1], cells[i][2], "Male", SomeBirth, RCO, AllA)
        ELSE NewerRow(i, cells[i][1], cells[i][2], "Male", SomeBirth, AllA)]

\* five rows: row 2 repeats the registration number (and the name) of row 1,
\* row 4 repeats the name of row 3 under another registration number
ScenarioCells(prog) ==
    LET n1 == IF prog = Legacy THEN <<"a">> ELSE <<<<"a">>, <<"a">>, <<"a">>>>
        n2 == IF prog = Legacy THEN <<"b">> ELSE <<<<"b">>, <<"b">>, <<"b">>>>
        n3 == IF prog = Legacy THEN <<"a", " ", "b">> ELSE <<<<"a">>, <<"b">>, <<"a">>>>
    IN  << <<n1, <<"S", "1">>>>, <<n1, <<"S", "1">>>>, <<n2, <<"S", "2">>>>,
           <<n2, <<"S", "3">>>>, <<n3, <<"S", "4">>>> >>

DedupInputs(prog) ==
    {RowsOfCells(prog, cells) :
        cells \in SeqsUpTo(DedupCells(prog), MaxDedupRows) \cup {ScenarioCells(prog)}}

InitDedup ==
    \E prog \in Programs : \E rows \in DedupInputs(prog) :
        Start(prog, WithPath(prog), File(rows), SomeDay, AbsentFile)

SpecDedup == InitDedup /\ [][Next]_vars

(***************************************************************************)
(* Deduplication (C1, C2, C3)                                              *)
(***************************************************************************)
\* read_data_file has returned into run
ReadDone ==
    \/ pc \in {"check_qualification", "split_courses", "open_writer", "summary",
               "sheets", "save", "print"}
    \/ pc \in {"finish", "exit"} /\ Len(argv) > 1 /\ csv_file.exists

RegColumn(prog) == IF prog = Legacy THEN "oLevelNumber" ELSE "form4index"
NameKey(prog) == IF prog = Legacy THEN "name" ELSE "full_name"

UniqueOn(df, col) == \A i, j \in 1..Len(df) : i # j => df[i][col] # df[j][col]

Labels(df) == {df[i]["idx"] : i \in 1..Len(df)}

IsScenario == csv_file.rows = RowsOfCells(program, ScenarioCells(program))

C2_DedupIdempotent ==
    ReadDone =>
        LET once == Deduplicate(program, Prepared(program, csv_file.rows))
        IN  /\ Deduplicate(program, once) = once
            /\ Labels(dataframe) = Labels(once)
            /\ Len(dataframe) = Len(once)

\* both passes of the legacy script have dropped a record
C2_BothPassesDropped ==
    /\ pc = "check_qualification"
    /\ program = Legacy
    /\ LET prepared == Prepared(program, csv_file.rows)
           first == DropDuplicates(prepared, "oLevelNumber")
       IN  /\ Len(first) < Len(prepared)
           /\ Len(dataframe) < Len(first)

KeysSharedWithNoOther(prog, df, j) ==
    \A k \in 1..Len(df) :
        k # j => /\ df[k][RegColumn(prog)] # df[j][RegColumn(prog)]
                 /\ df[k][NameKey(prog)] # df[j][NameKey(prog)]

Grades == {"A", "B", "C", "D", "F", NaNStr}
Courses == {CACO, RCO, HIS}

GradeRows(prog) ==
    {<< IF prog = Legacy
        THEN LegacyRow(1, NameOf(prog, 1), RowRegs[1], "Female", SomeBirth, c, g)
        ELSE NewerRow(1, NameOf(prog, 1), RowRegs[1], "Female", SomeBirth, g),
        IF prog = Legacy
        THEN LegacyRow(2, NameOf(prog, 2), RowRegs[2], "Male", SomeBirth, RCO,
                       <<"C", "B", "D", "D", "D">>)
        ELSE NewerRow(2, NameOf(prog, 2), RowRegs[2], "Male", SomeBirth,
                      <<"C", "B", "D", "D", "D">>) >> :
        c \in (IF prog = Legacy THEN Courses ELSE {RCO}),
        g \in Grades \X Grades \X Grades \X Grades \X Grades}

InitQualify ==
    \E prog \in Programs : \E rows \in GradeRows(prog) :
        Start(prog, WithPath(prog), File(rows), SomeDay, AbsentFile)

SpecQualify == InitQualify /\ [][Next]_vars

\* check_qualification has returned into run
CheckDone == ReadDone /\ pc # "check_qualification"

\* C4: in the legacy script a record of the Clinical Officer course has
\* Qualify "Yes" when biology and chemistry are in {A,B,C} and physics, maths
\* and english are in {A,B,C,D}, and "No" otherwise; a record of any other
\* course has Qualify blank.
C4_LegacyVerdict ==
    (CheckDone /\ program = Legacy) =>
        \A i \in 1..Len(dataframe) :
            LET row == dataframe[i]
                passes == /\ row["biology"] \in {"A", "B", "C"}
                          /\ row["chemistry"] \in {"A", "B", "C"}
                          /\ row["physics"] \in {"A", "B", "C", "D"}
                          /\ row["maths"] \in {"A", "B", "C", "D"}
                          /\ row["english"] \in {"A", "B", "C", "D"}
            IN  row["Qualify"] =
                    IF row["course"] = RCO THEN (IF passes THEN "Yes" ELSE "No") ELSE ""

\* C, B, D, D, D qualifies; biology D with the rest A does not; another course stays blank
C4_YesNoAndBlank ==
    /\ pc = "split_courses"
    /\ \E i, j \in 1..Len(dataframe) :
          /\ dataframe[i]["Qualify"] = "Yes"
          /\ <<dataframe[i]["biology"], dataframe[i]["chemistry"], dataframe[i]["physics"],
               dataframe[i]["maths"], dataframe[i]["english"]>> = <<"C", "B", "D", "D", "D">>
          /\ dataframe[j]["course"] = HIS
          /\ dataframe[j]["Qualify"] = ""

\* C5: in the newer script every record has Qualify "Yes" or "No", "Yes"
\* exactly when biology, chemistry and physics are in {A,B,C,D}, whatever
\* maths and english are, and no exception has been raised.
C5_NewerVerdict ==
    (CheckDone /\ program = Newer) =>
        /\ raised = ""
        /\ \A i \in 1..Len(dataframe) :
              LET row == dataframe[i]
              IN  /\ row["Qualify"] \in {"Yes", "No"}
                  /\ row["Qualify"] = "Yes" <=>
                        /\ row["biology"] \in {"A", "B", "C", "D"}
                        /\ row["chemistry"] \in {"A", "B", "C", "D"}
                        /\ row["physics"] \in {"A", "B", "C", "D"}

\* D, D, D qualifies with maths and english failed or absent
C5_ThreeDsQualify ==
    /\ pc = "open_writer"
    /\ program = Newer
    /\ \E i \in 1..Len(dataframe) :
          /\ <<dataframe[i]["biology"], dataframe[i]["chemistry"],
               dataframe[i]["physics"]>> = <<"D", "D", "D">>
          /\ dataframe[i]["maths"] = "F"
          /\ dataframe[i]["english"] = NaNStr
          /\ dataframe[i]["Qualify"] = "Yes"

(***************************************************************************)
(* Splitting and the summary (C6, C7): rows with every combination of      *)
(* course and gender, names and registration numbers all different.        *)
(***************************************************************************)
MaxReportRows == 3

OtherCourse == "Certificate in Nursing (two years)"
ReportCourses == {CACO, RCO, HIS, OtherCourse}
Genders == {"Male", "Female", "male"}

ReportCells(prog) == (IF prog = Legacy THEN ReportCourses ELSE {RCO}) \X Genders

ReportInputs(prog) ==
    {[i \in 1..Len(cells) |->
        IF prog = Legacy
        THEN LegacyRow(i, NameOf(prog, i), RowRegs[i], cells[i][2], SomeBirth,
                       cells[i][1], AllA)
        ELSE NewerRow(i, NameOf(prog, i), RowRegs[i], cells[i][2], SomeBirth, AllA)] :
        cells \in SeqsUpTo(ReportCells(prog), MaxReportRows)}

InitReport ==
    \E prog \in Programs : \E rows \in ReportInputs(prog) :
        Start(prog, WithPath(prog), File(rows), SomeDay, AbsentFile)

SpecReport == InitReport /\ [][Next]_vars

\* split_courses has returned into the legacy run
SplitDone == CheckDone /\ pc # "split_courses" /\ program = Legacy

\* the summary table has been built
SummaryDone == CheckDone /\ pc \notin {"split_courses", "open_writer", "summary"}

GroupCourse == <<CACO, RCO, HIS>>

\* C6: the three groups of split_courses share no record, each holds only
\* records of the frame that carry its course label, and their sizes sum to
\* at most the size of the frame, to less exactly when some record's course
\* is none of the three course strings.
C6_SplitIsPartition ==
    SplitDone =>
        LET total == Len(splitted[1]) + Len(splitted[2]) + Len(splitted[3])
        IN  /\ Len(splitted) = 3
            /\ \A g, h \in 1..3 : g # h => Labels(splitted[g]) \cap Labels(splitted[h]) = {}
            /\ \A g \in 1..3 :
                  /\ UniqueOn(splitted[g], "idx")
                  /\ \A i \in 1..Len(splitted[g]) :
                        /\ splitted[g][i]["course"] = GroupCourse[g]
                        /\ \E k \in 1..Len(dataframe) : dataframe[k] = splitted[g][i]
            /\ total <= Len(dataframe)
            /\ total < Len(dataframe) <=>
                  \E k \in 1..Len(dataframe) :
                      dataframe[k]["course"] \notin {CACO, RCO, HIS}

\* two groups are filled and a record of another course is in none
C6_TwoGroupsAndAStray ==
    /\ pc = "open_writer"
    /\ program = Legacy
    /\ Len(splitted[2]) > 0
    /\ Len(splitted[3]) > 0
    /\ Len(splitted[1]) + Len(splitted[2]) + Len(splitted[3]) < Len(dataframe)

Males(df) == Cardinality({i \in 1..Len(df) : df[i]["gender"] = "Male"})
Females(df) == Cardinality({i \in 1..Len(df) : df[i]["gender"] = "Female"})

\* the groups the summary is about: the three course groups, or the one pool
SummaryGroups == IF program = Legacy THEN splitted ELSE <<dataframe>>

GroupRowsRight ==
    /\ Len(summary_df) >= Len(SummaryGroups)
    /\ \A g \in 1..Len(SummaryGroups) :
          summary_df[g].cols = <<Len(SummaryGroups[g]), Males(SummaryGroups[g]),
                                 Females(SummaryGroups[g])>>

TotalRowRight ==
    /\ Len(summary_df) = Len(SummaryGroups) + 1
    /\ summary_df[Len(summary_df)].label = "Total"
    /\ \A c \in 1..3 :
          summary_df[Len(summary_df)].cols[c] =
              IF program = Legacy
              THEN summary_df[1].cols[c] + summary_df[2].cols[c] + summary_df[3].cols[c]
              ELSE summary_df[1].cols[c]

BirthYears == {1999, 2000}
CurrentYears == {2018, 2020}
Months == {1, 2, 7, 12}
Days == {1, 23, 28, 29, 30, 31}

BirthCells == (BirthYears \X Months \X Days) \cup {NaNDate}
CurrentDates ==
    {[year |-> d[1], month |-> d[2], day |-> d[3]] :
        d \in {c \in CurrentYears \X Months \X Days : ValidDate(c)}}

AgeInputs(prog) ==
    IF prog = Legacy
    THEN {<<LegacyRow(1, NameOf(prog, 1), RowRegs[1], "Male", born, RCO, AllA)>> :
             born \in BirthCells}
    ELSE {<<NewerRow(1, NameOf(prog, 1), RowRegs[1], "Male", SomeBirth, AllA)>>}

InitAge ==
    \E prog \in Programs : \E rows \in AgeInputs(prog) : \E now \in CurrentDates :
        Start(prog, WithPath(prog), File(rows), now, AbsentFile)

SpecAge == InitAge /\ [][Next]_vars

\* C8: for a valid birth date calculate_age returns (no exception), and the
\* age it gives is today.year - born.year or one less, the former exactly
\* when today's (month, day) is not before the birth (month, day).
C8_AgeByBirthday ==
    program = Legacy =>
        /\ raised \in {"ValueError", "TypeError"} =>
              \E i \in 1..Len(csv_file.rows) : ~ValidDate(csv_file.rows[i]["birthDate"])
        /\ ReadDone =>
              \A i \in 1..Len(dataframe) :
                  LET born == dataframe[i]["birthDate"]
                      age == dataframe[i]["age_calc"]
                      years == today.year - born[1]
                      reached == \/ today.month > born[2]
                                 \/ today.month = born[2] /\ today.day >= born[3]
                  IN  /\ age \in {years, years - 1}
                      /\ age = years <=> reached

\* the run falls on the birthday itself, which counts as reached
C8_OnTheBirthday ==
    /\ pc = "check_qualification"
    /\ program = Legacy
    /\ \E i \in 1..Len(dataframe) :
          /\ dataframe[i]["birthDate"][2] = today.month
          /\ dataframe[i]["birthDate"][3] = today.day
          /\ dataframe[i]["age_calc"] = today.year - dataframe[i]["birthDate"][1]

(***************************************************************************)
(* Names (C9): one row, every name cell over a small alphabet up to a      *)
(* bounded length, the empty cell (NaN) included.                          *)
(***************************************************************************)
MaxNameLen == 4
MaxPartLen == 2

Alphabet == {"a", "B", " "}
NameCells(n) == SeqsUpTo(Alphabet, n) \cup {NaN}

NameInputs(prog) ==
    IF prog = Legacy
    THEN {<<LegacyRow(1, name, RowRegs[1], "Male", SomeBirth, RCO, AllA)>> :
             name \in NameCells(MaxNameLen)}
    ELSE {<<NewerRow(1, names, RowRegs[1], "Male", SomeBirth, AllA)>> :
             names \in NameCells(MaxPartLen) \X NameCells(MaxPartLen) \X NameCells(MaxPartLen)}

InitName ==
    \E prog \in Programs : \E rows \in NameInputs(prog) :
        Start(prog, WithPath(prog), File(rows), SomeDay, AbsentFile)

SpecName == InitName /\ [][Next]_vars

IsCanonical(x) ==
    /\ x # <<>>
    /\ \A k \in 1..Len(x) : x[k] = UpperChar(x[k])
    /\ x[1] # " "
    /\ x[Len(x)] # " "
    /\ \A k \in 1..(Len(x) - 1) : ~(x[k] = " " /\ x[k + 1] = " ")

\* C9: normalization raises no error, whatever the name cells (missing and
\* blank ones included), and afterwards every record's canonical full name
\* is non-empty, uppercase, without leading or trailing space and without a
\* run of two spaces; in the newer script it is the three normalized parts
\* joined by single spaces.
C9_CanonicalFullName ==
    /\ raised # "AttributeError"
    /\ ReadDone =>
          \A i \in 1..Len(dataframe) :
              /\ IsCanonical(dataframe[i][NameKey(program)])
              /\ program = Newer =>
                    dataframe[i]["full_name"] =
                        Join(<<" ">>, <<dataframe[i]["first_name"],
                                        dataframe[i]["second_name"],
                                        dataframe[i]["surname"]>>)

(***************************************************************************)
(* Starting the program (C10): with and without the path argument, the     *)
(* file there or not, candidates.xlsx left by an earlier run or not.       *)
(***************************************************************************)
MainInputs(prog) == {rows \in ReportInputs(prog) : Len(rows) <= 1}

Init ==
    \E prog \in Programs :
    \E args \in {<<prog>>, WithPath(prog)} :
    \E file \in {NoFile} \cup {File(rows) : rows \in MainInputs(prog)} :
    \E disk \in {AbsentFile, StaleFile} :
        Start(prog, args, file, SomeDay, disk)

Spec == Init /\ [][Next]_vars

\* C10: started without a path argument, or with a path that does not exist,
\* the program raises nothing, reads no CSV, evaluates no record, opens no
\* writer and leaves candidates.xlsx as it was; it can always go on to its
\* exit, and by then it has printed the message of its case.
C10_NoInputNoPipeline ==
    (Len(argv) = 1 \/ ~csv_file.exists) =>
        /\ pc \in {"main", "run", "finish", "exit"}
        /\ raised = ""
        /\ dataframe = <<>>
        /\ splitted = <<>>
        /\ summary_df = <<>>
        /\ writer = NoWriter
        /\ candidates_xlsx \in {AbsentFile, StaleFile}
        /\ pc # "exit" => ENABLED Next
        /\ pc \in {"finish", "exit"} =>
              \E k \in 1..Len(stdout) :
                  stdout[k] = IF Len(argv) = 1 THEN "usage" ELSE "does not exists"

\* the path is given, the file is not there, an earlier candidates.xlsx is
C10_MissingFileExit ==
    /\ pc = "exit"
    /\ Len(argv) = 2
    /\ ~csv_file.exists
    /\ candidates_xlsx = StaleFile
    /\ stdout[Len(stdout) - 1] = "does not exists"

(***************************************************************************)
(* Blank registration numbers (C11)                                        *)
(***************************************************************************)
NameSharedWithNoOther(prog, df, j) ==
    \A k \in 1..Len(df) : k # j => df[k][NameKey(prog)] # df[j][NameKey(prog)]

\* C11: the registration-number pass of the legacy script never drops a
\* record for a blank registration number: every input record whose
\* registration number is blank and whose canonical full name no other input
\* record has is in the frame read_data_file returns.
C11_BlankRegistrationKept ==
    (ReadDone /\ program = Legacy) =>
        LET input == Prepared(program, csv_file.rows)
        IN  \A j \in 1..Len(input) :
                (input[j]["oLevelNumber"] = NaN /\ NameSharedWithNoOther(program, input, j))
                    => input[j]["idx"] \in Labels(dataframe)

(***************************************************************************)
(* The output writer (C12)                                                 *)
(***************************************************************************)
SheetsOf(prog) ==
    IF prog = Legacy
    THEN <<"Summary", "CACO-candidates", "rCO-candidates", "HIS-candidates">>
    ELSE <<"Summary", "Applicants">>

\* C12: a run that has opened the writer has saved it by the time the run
\* function is left, and once the program has ended candidates.xlsx holds
\* the summary sheet and every detail sheet.
C12_WriterSavedBeforeEnd ==
    /\ (pc = "finish" /\ writer.state # "none") => writer.state = "saved"
    /\ (pc = "exit" /\ writer.state # "none") =>
          /\ writer.state = "saved"
          /\ candidates_xlsx = [state |-> "written", sheets |-> SheetsOf(program)]

=============================================================================
